---------------------------- MODULE Spec2Model ----------------------------
(***************************************************************************)
(* Model of the resilience and scaling control plane of                    *)
(* backend/app/scaling.py: the instance registry and load balancer, the    *)
(* circuit breaker, the sliding-window rate limiter, the session and cache *)
(* facades over the store, the aggregate health check, the graceful        *)
(* shutdown and the configuration profiles; and of backend/app/cache.py:   *)
(* the cache manager and the cache_result wrapper.                         *)
(*                                                                         *)
(* The program runs on one asyncio event loop: a coroutine runs without    *)
(* interruption from one suspension point (an await that reaches the       *)
(* network) to the next.  Every action below is one such uninterrupted     *)
(* stretch of a handler.                                                   *)
(***************************************************************************)
EXTENDS Integers, Sequences, FiniteSets, TLC

(***************************************************************************)
(* Bounds of the model and inputs of the operations.                       *)
(***************************************************************************)
MaxInstances == 2
MaxIndex == 3
MaxTime == 4
MaxThreshold == 2
MaxTimeout == 2
MaxFailures == 3
MaxCeiling == 2
MaxWindow == 2
MaxAdmits == 4
MaxTtl == 2
MaxGrace == 2
MaxInflight == 2
MaxHealthChecks == 2
MaxEntries == 3
MaxCalls == 3

Ids == {"A", "B"}
Weights == {1, 2}
Algorithms == {"round_robin", "weighted", "least_connections", "unknown"}
\* What one probe of GET <url>/health can produce: a status code, or an
\* exception (connection error, timeout).
ProbeOutcomes == {"200", "204", "500", "error"}
Callers == {"c1", "c2"}
\* What the function protected by the breaker can do: return a value, return
\* a value that encodes an error, raise the configured exception, raise an
\* exception outside the configured category.
CallOutcomes == {"value", "error_value", "expected", "other"}
\* self.last_failure_time = None
NoTime == -1

\* The values callers store: a string, a tuple, a datetime.
Values == {"text", "tuple", "datetime"}
\* The keys callers of the cache facades supply, and the session ids.
CacheKeys == {<<"k1">>}
SessionIds == {"s1"}
\* The patterns of a bulk delete, each "<prefix>*", named by the prefix:
\* "*" and "session:*".
Patterns == {<<>>, <<"session", ":">>}
Ttls == 1..MaxTtl
\* cache.CacheManager.set(key, value, expire=None)
NoneExpire == 0
Expires == {NoneExpire} \cup Ttls
\* if expire is None: expire = 300
DefaultExpire == 300
\* @cache_result(expire=600, key_prefix="character_detail")
CharacterDetailExpire == 600
\* The character ids requested, the addresses a request's Session object
\* can have, and the two ways of passing arguments.
CharIds == {5, 7}
Addresses == {"0x1", "0x2"}
CallStyles == {"positional", "keyword"}
\* if memory.percent > 90
MemoryHighWater == 90
\* psutil is not installed: the memory check reports "not_available".
NoMemory == -1
\* What the memory check can read.
MemoryReadings == {NoMemory, 50, 90, 91}

VARIABLES
    instances,       \* LoadBalancer.instances: the list of instance dicts
    current_index,   \* LoadBalancer.current_index: the round-robin cursor
    health_status,   \* LoadBalancer.health_status: id -> bool, or no entry
    hcPc,            \* LoadBalancer.health_check: "idle" or "probing"
    hcRest,          \* the ids of the dicts the running health_check has
                     \* yet to reach in the list object it iterates
    hcShared,        \* whether that object is still self.instances
    lbLast,          \* the last load balancer operation and its outcome
    rrLog,           \* round_robin selections since the last registry or
                     \* health change
    hcSeen,          \* per id, what its last probe in the current health_check
                     \* pass returned: "2xx", "other", or "none"
    hcClean,         \* a health_check pass has started and the registry has
                     \* not changed since
    now,             \* the clock: datetime.utcnow().timestamp()
    failure_threshold,   \* CircuitBreaker.failure_threshold
    recovery_timeout,    \* CircuitBreaker.recovery_timeout
    cbState,         \* CircuitBreaker.state
    failure_count,   \* CircuitBreaker.failure_count
    last_failure_time,   \* CircuitBreaker.last_failure_time
    cbPc,            \* per caller of CircuitBreaker.call: "idle", or how the
                     \* call now awaiting func was let through: "closed",
                     \* "half" (found HALF_OPEN), "probe" (found OPEN with
                     \* the recovery timeout elapsed)
    cbLast,          \* the last step of a CircuitBreaker.call
    cbStreak,        \* failures in a row since CLOSED with failure_count 0
    cbHalfFailAt,    \* the time of the last failure met in HALF_OPEN
    window_size,     \* RateLimiter.window_size
    max_requests,    \* RateLimiter.max_requests
    zset,            \* the store's sorted set under the limiter's key: each
                     \* member is str(score), so the set of scores stands
                     \* for the set of members
    expireAt,        \* the store's expiry time of that key, or NoTime
    rlPc,            \* per caller of is_allowed: "idle", or the store
                     \* command the call awaits next
    rlTime,          \* per caller: current_time of the call
    rlCount,         \* per caller: current_requests of the call
    rlAdmitted,      \* for every time t, the calls with current_time t that
                     \* returned True
    rlOverlap,       \* whether two calls of is_allowed ever overlapped
    rlLast,          \* the last decision of is_allowed
    kv,              \* the store's string keys: key -> data and expiry time
    storeUp,         \* whether the store can be reached
    cmInitialized,   \* cache.CacheManager._initialized
    cmClient,        \* cache.CacheManager.redis_client is not None
    cpPending,       \* scaling.CacheManager.clear_pattern between its two
                     \* store commands: the keys it is about to delete
    kvLast,          \* the last facade operation and its outcome
    kvWritten,       \* key -> the value last stored under it through a
                     \* facade and the end of the time-to-live given then
    crPc,            \* per caller of a cache_result wrapper: the key and
                     \* character id of the call now awaiting func
    crLast,          \* the last lookup or return of a cache_result wrapper
    crWrote,         \* character id -> the key and expiry of the entry the
                     \* last completed invocation for that id stored
    apPhase,         \* "startup", "running", "draining" (graceful_shutdown
                     \* sleeps), "stopped"
    apTimeout,       \* ScalingConfig.graceful_shutdown_timeout
    apClient,        \* ScalingMiddleware.redis_client: "none", "open",
                     \* "closed"
    apStoreCreated,  \* store clients created so far
    apStoreClosed,   \* close() calls on the store client so far
    apPoolsCreated,  \* DatabasePool objects (engines) created so far
    apOld,           \* requests in flight that arrived before shutdown began
    apNew,           \* requests in flight that arrived after it began
    apShutdownAt,    \* when graceful_shutdown began
    apLast,          \* the last event of the process
    cfLog            \* the calls of create_scaling_config so far: the mode
                     \* given and the ScalingConfig returned

lbVars == <<instances, current_index, health_status, hcPc, hcRest, hcShared,
            lbLast, rrLog, hcSeen, hcClean>>

cbVars == <<failure_threshold, recovery_timeout, cbState, failure_count,
            last_failure_time, cbPc, cbLast, cbStreak, cbHalfFailAt>>

rlVars == <<window_size, max_requests, zset, expireAt, rlPc, rlTime, rlCount,
            rlAdmitted, rlOverlap, rlLast>>

kvVars == <<kv, storeUp, cmInitialized, cmClient, cpPending, kvLast,
            kvWritten>>

crVars == <<crPc, crLast, crWrote>>

apVars == <<apPhase, apTimeout, apClient, apStoreCreated, apStoreClosed,
            apPoolsCreated, apOld, apNew, apShutdownAt, apLast>>

cfVars == <<cfLog>>

vars == <<lbVars, now, cbVars, rlVars, kvVars, crVars, apVars, cfVars>>

(***************************************************************************)
(* LoadBalancer                                                            *)
(***************************************************************************)

\* The dict register_instance builds ("healthy": True).
NewInstance(id, w) == [id |-> id, weight |-> w, healthy |-> TRUE]

\* self.health_status.get(id, False)
HsGet(hs, id) == hs[id] = "true"

\* get_healthy_instances: the instances whose health_status entry is true,
\* in list order.  An instance is named by its position in self.instances.
RECURSIVE HealthyFrom(_, _, _)
HealthyFrom(insts, hs, k) ==
    IF k > Len(insts) THEN <<>>
    ELSE (IF HsGet(hs, insts[k].id) THEN <<k>> ELSE <<>>)
         \o HealthyFrom(insts, hs, k + 1)

get_all_instances(insts, hs) == [k \in 1..Len(insts) |-> k]
get_healthy_instances(insts, hs) == HealthyFrom(insts, hs, 1)

\* healthy_instances[self.current_index % len(healthy_instances)]
RoundRobinSlot(h, idx) == (idx % Len(h)) + 1

\* self.current_index += 1
AdvanceCursorSkip(idx) == idx + 2
AdvanceCursor(idx) == idx + 1

RECURSIVE SumWeights(_, _, _)
SumWeights(insts, h, k) ==
    IF k > Len(h) THEN 0 ELSE insts[h[k]].weight + SumWeights(insts, h, k + 1)

\* sum(inst["weight"] for inst in healthy_instances)
TotalWeight(insts, h) == SumWeights(insts, h, 1)

\* The loop of the weighted branch.  The draw random.uniform(0, total) is a
\* real number; rand2 is twice the draw, so that halves are representable.
\* When the loop ends without returning, control falls to the last line of
\* select_instance, which returns healthy_instances[0].
RECURSIVE WeightedFromStrict(_, _, _, _, _)
WeightedFromStrict(insts, h, rand2, k, current_weight) ==
    IF k > Len(h) THEN 1
    ELSE IF rand2 < 2 * (current_weight + insts[h[k]].weight) THEN k
    ELSE WeightedFromStrict(insts, h, rand2, k + 1,
                            current_weight + insts[h[k]].weight)
RECURSIVE WeightedFrom(_, _, _, _, _)
WeightedFrom(insts, h, rand2, k, current_weight) ==
    IF k > Len(h) THEN 1
    ELSE IF rand2 <= 2 * (current_weight + insts[h[k]].weight) THEN k
    ELSE WeightedFrom(insts, h, rand2, k + 1,
                      current_weight + insts[h[k]].weight)

WeightedSlot(insts, h, rand2) == WeightedFrom(insts, h, rand2, 1, 0)

\* x.get("active_connections", 0): no code sets the key.
ActiveConnections(inst) == 0

\* min(healthy_instances, key=...): the first instance with the least count.
LeastConnectionsSlot(insts, h) ==
    CHOOSE k \in 1..Len(h) :
        /\ \A j \in 1..Len(h) :
               ActiveConnections(insts[h[k]]) <= ActiveConnections(insts[h[j]])
        /\ \A j \in 1..(k - 1) :
               ActiveConnections(insts[h[j]]) > ActiveConnections(insts[h[k]])

\* What select_instance gives its caller when no instance is healthy:
\* "return None".  pos = 0 stands for None; a raised exception would be
\* the outcome NoHealthyRaises.
NoHealthyRaises == [kind |-> "raise", pos |-> 0]
NoHealthyOutcome == [kind |-> "return", pos |-> 0]

\* The slot of healthy_instances that select_instance returns.
SelectSlot(insts, h, idx, alg, rand2) ==
    CASE alg = "round_robin" -> RoundRobinSlot(h, idx)
      [] alg = "weighted" -> WeightedSlot(insts, h, rand2)
      [] alg = "least_connections" -> LeastConnectionsSlot(insts, h)
      [] OTHER -> 1

\* select_instance: the outcome and the cursor after the call.
select_instance_unguarded(insts, hs, idx, alg, rand2) ==
    LET h == get_healthy_instances(insts, hs) IN
    IF h = <<>> THEN [out |-> NoHealthyRaises, idx |-> idx]
    ELSE [out |-> [kind |-> "return",
                   pos |-> h[SelectSlot(insts, h, idx, alg, rand2)]],
          idx |-> IF alg = "round_robin" THEN AdvanceCursor(idx) ELSE idx]
select_instance(insts, hs, idx, alg, rand2) ==
    LET h == get_healthy_instances(insts, hs) IN
    IF h = <<>> THEN [out |-> NoHealthyOutcome, idx |-> idx]
    ELSE [out |-> [kind |-> "return",
                   pos |-> h[SelectSlot(insts, h, idx, alg, rand2)]],
          idx |-> IF alg = "round_robin" THEN AdvanceCursor(idx) ELSE idx]

NoOp == [op |-> "none", alg |-> "none", id |-> "none",
         out |-> NoHealthyOutcome]

\* No instance has been probed in the current pass.
NotProbed == [i \in Ids |-> "none"]

\* The class of a probe's outcome under the health endpoint contract: a
\* status 2xx, or anything else (another status, a connection error, a
\* timeout).
ProbeClass(outcome) == IF outcome \in {"200", "204"} THEN "2xx" ELSE "other"

LbInit ==
    /\ instances = <<>>
    /\ current_index = 0
    /\ health_status = [i \in Ids |-> "absent"]
    /\ hcPc = "idle"
    /\ hcRest = <<>>
    /\ hcShared = FALSE
    /\ lbLast = NoOp
    /\ rrLog = <<>>
    /\ hcSeen = NotProbed
    /\ hcClean = FALSE

\* register_instance(instance_id, host, port, weight)
register_instance(id, w) ==
    /\ Len(instances) < MaxInstances
    /\ instances' = Append(instances, NewInstance(id, w))
    /\ health_status' = [health_status EXCEPT ![id] = "true"]
    \* list.append mutates the list object a running health_check iterates
    /\ hcRest' = IF hcPc = "probing" /\ hcShared
                 THEN Append(hcRest, id) ELSE hcRest
    /\ lbLast' = [NoOp EXCEPT !.op = "register", !.id = id]
    /\ rrLog' = <<>>
    /\ hcSeen' = NotProbed
    /\ hcClean' = FALSE
    /\ UNCHANGED <<current_index, hcPc, hcShared>>
    /\ UNCHANGED <<now, cbVars, rlVars, kvVars, crVars, apVars, cfVars>>

RemoveId(insts, id) == SelectSeq(insts, LAMBDA inst : inst.id # id)

\* deregister_instance(instance_id)
deregister_instance(id) ==
    /\ instances' = RemoveId(instances, id)
    /\ health_status' = [health_status EXCEPT ![id] = "absent"]
    \* self.instances is bound to a new list; the iteration keeps the old one
    /\ hcShared' = FALSE
    /\ lbLast' = [NoOp EXCEPT !.op = "deregister"]
    /\ rrLog' = IF instances' = instances /\ health_status' = health_status
                THEN rrLog ELSE <<>>
    /\ hcSeen' = NotProbed
    /\ hcClean' = FALSE
    /\ UNCHANGED <<current_index, hcPc, hcRest>>
    /\ UNCHANGED <<now, cbVars, rlVars, kvVars, crVars, apVars, cfVars>>

\* select_instance(algorithm).  The call has no suspension point (awaiting
\* get_healthy_instances runs it inline), so the calls of concurrent callers
\* run one after the other, in any order.
SelectInstance(alg) ==
    /\ current_index < MaxIndex
    /\ LET h == get_healthy_instances(instances, health_status) IN
       \* random.uniform(0, total_weight), drawn by the weighted branch only
       \E rand2 \in (IF alg = "weighted"
                     THEN 0..(2 * TotalWeight(instances, h)) ELSE {0}) :
         /\ LET r == select_instance(instances, health_status, current_index,
                                     alg, rand2) IN
            /\ current_index' = r.idx
            /\ lbLast' = [NoOp EXCEPT !.op = "select", !.alg = alg,
                                      !.out = r.out]
            /\ rrLog' = IF alg = "round_robin" /\ r.out.pos # 0
                        THEN Append(rrLog, [pos |-> r.out.pos,
                                            cursor |-> current_index])
                        ELSE rrLog
    /\ UNCHANGED <<instances, health_status, hcPc, hcRest, hcShared, hcSeen,
                   hcClean>>
    /\ UNCHANGED <<now, cbVars, rlVars, kvVars, crVars, apVars, cfVars>>

\* health_check: "for instance in self.instances" starts
HealthCheckStart ==
    /\ hcPc = "idle"
    /\ hcPc' = "probing"
    /\ hcRest' = [k \in 1..Len(instances) |-> instances[k].id]
    /\ hcShared' = TRUE
    /\ hcSeen' = NotProbed
    /\ hcClean' = TRUE
    /\ lbLast' = [NoOp EXCEPT !.op = "health_check"]
    /\ UNCHANGED <<instances, current_index, health_status, rrLog>>
    /\ UNCHANGED <<now, cbVars, rlVars, kvVars, crVars, apVars, cfVars>>

\* response.status == 200; an exception marks the instance unhealthy
ProbeHealthy(outcome) == outcome = "200"

\* health_check: the loop takes the next dict of the list, its probe
\* completes and the result is written to health_status under the dict's id
HealthCheckProbe(outcome) ==
    /\ hcPc = "probing"
    /\ hcRest # <<>>
    /\ health_status' =
           [health_status EXCEPT ![Head(hcRest)] =
               IF ProbeHealthy(outcome) THEN "true" ELSE "false"]
    /\ hcRest' = Tail(hcRest)
    /\ lbLast' = [NoOp EXCEPT !.op = "health_check"]
    /\ rrLog' = IF health_status' = health_status THEN rrLog ELSE <<>>
    /\ hcSeen' = IF hcClean
                 THEN [hcSeen EXCEPT ![Head(hcRest)] = ProbeClass(outcome)]
                 ELSE hcSeen
    /\ UNCHANGED <<instances, current_index, hcPc, hcShared, hcClean>>
    /\ UNCHANGED <<now, cbVars, rlVars, kvVars, crVars, apVars, cfVars>>

\* health_check: the iteration finds the list exhausted and returns
HealthCheckDone ==
    /\ hcPc = "probing"
    /\ hcRest = <<>>
    /\ hcPc' = "idle"
    /\ hcShared' = FALSE
    /\ UNCHANGED hcRest
    /\ lbLast' = [NoOp EXCEPT !.op = "health_check"]
    /\ UNCHANGED <<instances, current_index, health_status, rrLog, hcSeen,
                   hcClean>>
    /\ UNCHANGED <<now, cbVars, rlVars, kvVars, crVars, apVars, cfVars>>

LbNext ==
    \/ \E id \in Ids, w \in Weights : register_instance(id, w)
    \/ \E id \in Ids : deregister_instance(id)
    \/ \E alg \in Algorithms : SelectInstance(alg)
    \/ HealthCheckStart
    \/ \E o \in ProbeOutcomes : HealthCheckProbe(o)
    \/ HealthCheckDone

\* The load balancer under callers that all select by weight.
LwNext ==
    \/ \E id \in Ids, w \in Weights : register_instance(id, w)
    \/ \E id \in Ids : deregister_instance(id)
    \/ SelectInstance("weighted")
    \/ HealthCheckStart
    \/ \E o \in ProbeOutcomes : HealthCheckProbe(o)
    \/ HealthCheckDone

(***************************************************************************)
(* CircuitBreaker                                                          *)
(***************************************************************************)

CbIdle == [c \in Callers |-> "idle"]
CbNoStep == [ev |-> "none", caller |-> "c1", pre |-> "CLOSED",
             elapsed |-> FALSE, entry |-> "idle"]

\* CircuitBreaker.__init__
CbInit ==
    /\ failure_threshold \in 1..MaxThreshold
    /\ recovery_timeout \in 1..MaxTimeout
    /\ cbState = "CLOSED"
    /\ failure_count = 0
    /\ last_failure_time = NoTime
    /\ cbPc = CbIdle
    /\ cbLast = CbNoStep
    /\ cbStreak = 0
    /\ cbHalfFailAt = NoTime

\* datetime.utcnow().timestamp() - self.last_failure_time > self.recovery_timeout
TimeoutElapsed(t, last, timeout) == t - last > timeout

\* except self.expected_exception
IsExpectedAny(outcome) == outcome \in {"expected", "other"}
IsExpected(outcome) == outcome = "expected"

\* if self.failure_count >= self.failure_threshold
ThresholdReachedAbove(count, threshold) == count > threshold
ThresholdReachedExactly(count, threshold) == count = threshold
ThresholdReached(count, threshold) == count >= threshold

\* The breaker after func returned: HALF_OPEN becomes CLOSED with the count
\* reset, any other state is left alone.
OnSuccessKeepCount(state, count) ==
    IF state = "HALF_OPEN" THEN [state |-> "CLOSED", count |-> count]
    ELSE [state |-> state, count |-> count]
OnSuccessResetAlways(state, count) ==
    [state |-> IF state = "HALF_OPEN" THEN "CLOSED" ELSE state, count |-> 0]
OnSuccess(state, count) ==
    IF state = "HALF_OPEN" THEN [state |-> "CLOSED", count |-> 0]
    ELSE [state |-> state, count |-> count]

\* CircuitBreaker.call, up to "await func(...)": the gate
CbEnter(c) ==
    /\ cbPc[c] = "idle"
    /\ LET elapsed == TimeoutElapsed(now, last_failure_time, recovery_timeout)
       IN
       IF cbState = "OPEN" /\ ~elapsed
       THEN \* raise Exception("Circuit breaker is OPEN")
            /\ cbLast' = [ev |-> "rejected", caller |-> c, pre |-> cbState,
                          elapsed |-> FALSE, entry |-> "idle"]
            /\ UNCHANGED <<cbState, cbPc>>
       ELSE /\ cbState' = IF cbState = "OPEN" THEN "HALF_OPEN" ELSE cbState
            /\ cbPc' = [cbPc EXCEPT ![c] =
                           CASE cbState = "OPEN" -> "probe"
                             [] cbState = "HALF_OPEN" -> "half"
                             [] OTHER -> "closed"]
            /\ cbLast' = [ev |-> "admitted", caller |-> c, pre |-> cbState,
                          elapsed |-> cbState = "OPEN" /\ elapsed,
                          entry |-> cbPc'[c]]
    /\ UNCHANGED <<now, failure_threshold, recovery_timeout, failure_count,
                   last_failure_time, cbStreak, cbHalfFailAt>>
    /\ UNCHANGED <<lbVars, rlVars, kvVars, crVars, apVars, cfVars>>

\* CircuitBreaker.call, from the end of "await func(...)" to the return or
\* the raise
CbComplete(c, outcome) ==
    /\ cbPc[c] # "idle"
    /\ cbPc' = [cbPc EXCEPT ![c] = "idle"]
    /\ cbLast' = [ev |-> outcome, caller |-> c, pre |-> cbState,
                  elapsed |-> FALSE, entry |-> cbPc[c]]
    /\ IF IsExpected(outcome)
       THEN /\ failure_count < MaxFailures
            /\ failure_count' = failure_count + 1
            /\ last_failure_time' = now
            /\ cbState' = IF ThresholdReached(failure_count',
                                              failure_threshold)
                          THEN "OPEN" ELSE cbState
            /\ cbStreak' = IF cbState = "CLOSED" /\ failure_count = 0 THEN 1
                           ELSE IF cbStreak > 0 THEN cbStreak + 1 ELSE 0
            /\ cbHalfFailAt' = IF cbState = "HALF_OPEN" THEN now
                               ELSE cbHalfFailAt
       ELSE IF outcome \in {"value", "error_value"}
       THEN /\ cbState' = OnSuccess(cbState, failure_count).state
            /\ failure_count' = OnSuccess(cbState, failure_count).count
            /\ cbStreak' = 0
            /\ UNCHANGED <<last_failure_time, cbHalfFailAt>>
       ELSE \* an exception no except clause catches passes through
            /\ cbStreak' = 0
            /\ UNCHANGED <<cbState, failure_count, last_failure_time,
                           cbHalfFailAt>>
    /\ UNCHANGED <<now, failure_threshold, recovery_timeout>>
    /\ UNCHANGED <<lbVars, rlVars, kvVars, crVars, apVars, cfVars>>

\* Time passes.
Tick ==
    /\ now < MaxTime
    /\ now' = now + 1

\* Time passes between the calls of the breaker and while func runs.
CbTick ==
    /\ Tick
    /\ cbLast' = CbNoStep
    /\ UNCHANGED <<failure_threshold, recovery_timeout, cbState, failure_count,
                   last_failure_time, cbPc, cbStreak, cbHalfFailAt>>
    /\ UNCHANGED <<lbVars, rlVars, kvVars, crVars, apVars, cfVars>>

CbNext ==
    \/ \E c \in Callers : CbEnter(c)
    \/ \E c \in Callers, o \in CallOutcomes : CbComplete(c, o)
    \/ CbTick

(***************************************************************************)
(* RateLimiter                                                             *)
(***************************************************************************)

Times == 0..MaxTime
RlNoDecision == [ev |-> "none", caller |-> "c1"]

RECURSIVE SumOver(_, _)
SumOver(f, S) ==
    IF S = {} THEN 0
    ELSE LET x == CHOOSE y \in S : TRUE IN f[x] + SumOver(f, S \ {x})

\* RateLimiter.__init__, with the key absent from the store
RlInit ==
    /\ window_size \in 1..MaxWindow
    /\ max_requests \in 1..MaxCeiling
    /\ zset = {}
    /\ expireAt = NoTime
    /\ rlPc = [c \in Callers |-> "idle"]
    /\ rlTime = [c \in Callers |-> NoTime]
    /\ rlCount = [c \in Callers |-> 0]
    /\ rlAdmitted = [t \in Times |-> 0]
    /\ rlOverlap = FALSE
    /\ rlLast = RlNoDecision

\* window_start = current_time - self.window_size
WindowStart(current_time, window) == current_time - window

\* ZREMRANGEBYSCORE key lo hi: removes the members with lo <= score <= hi
ZRemRangeByScore(z, lo, hi) == {s \in z : ~(lo <= s /\ s <= hi)}

\* ZCARD key
ZCard(z) == Cardinality(z)

\* ZADD key score member, with member = str(score): a member already in
\* the set is not added again
ZAdd(z, score) == z \cup {score}

\* if current_requests >= self.max_requests: return False
OverLimit(current_requests, ceiling) == current_requests >= ceiling

\* is_allowed: current_time = datetime.utcnow().timestamp()
RlStart(c) ==
    /\ rlPc[c] = "idle"
    /\ SumOver(rlAdmitted, Times)
         + Cardinality({d \in Callers : rlPc[d] # "idle"}) < MaxAdmits
    /\ rlPc' = [rlPc EXCEPT ![c] = "zremrangebyscore"]
    /\ rlTime' = [rlTime EXCEPT ![c] = now]
    /\ rlCount' = [rlCount EXCEPT ![c] = 0]
    /\ rlOverlap' = (rlOverlap \/ \E d \in Callers : rlPc[d] # "idle")
    /\ rlLast' = RlNoDecision
    /\ UNCHANGED <<now, window_size, max_requests, zset, expireAt,
                   rlAdmitted>>
    /\ UNCHANGED <<lbVars, cbVars, kvVars, crVars, apVars, cfVars>>

\* await self.redis.zremrangebyscore(key, 0, window_start)
RlPrune(c) ==
    /\ rlPc[c] = "zremrangebyscore"
    /\ zset' = ZRemRangeByScore(zset, 0, WindowStart(rlTime[c], window_size))
    \* the store deletes a sorted set that became empty, with its expiry
    /\ expireAt' = IF zset' = {} THEN NoTime ELSE expireAt
    /\ rlPc' = [rlPc EXCEPT ![c] = "zcard"]
    /\ rlLast' = RlNoDecision
    /\ UNCHANGED <<now, window_size, max_requests, rlTime, rlCount,
                   rlAdmitted, rlOverlap>>
    /\ UNCHANGED <<lbVars, cbVars, kvVars, crVars, apVars, cfVars>>

\* current_requests = await self.redis.zcard(key), and the comparison
RlCount(c) ==
    /\ rlPc[c] = "zcard"
    /\ rlCount' = [rlCount EXCEPT ![c] = ZCard(zset)]
    /\ IF OverLimit(rlCount'[c], max_requests)
       THEN /\ rlPc' = [rlPc EXCEPT ![c] = "idle"]
            /\ rlLast' = [ev |-> "reject", caller |-> c]
       ELSE /\ rlPc' = [rlPc EXCEPT ![c] = "zadd"]
            /\ rlLast' = [ev |-> "admit", caller |-> c]
    /\ UNCHANGED <<now, window_size, max_requests, zset, expireAt, rlTime,
                   rlAdmitted, rlOverlap>>
    /\ UNCHANGED <<lbVars, cbVars, kvVars, crVars, apVars, cfVars>>

\* await self.redis.zadd(key, {str(current_time): current_time})
RlAdd(c) ==
    /\ rlPc[c] = "zadd"
    /\ zset' = ZAdd(zset, rlTime[c])
    /\ rlPc' = [rlPc EXCEPT ![c] = "expire"]
    /\ rlLast' = RlNoDecision
    /\ UNCHANGED <<now, window_size, max_requests, expireAt, rlTime, rlCount,
                   rlAdmitted, rlOverlap>>
    /\ UNCHANGED <<lbVars, cbVars, kvVars, crVars, apVars, cfVars>>

\* await self.redis.expire(key, self.window_size); return True
RlExpire(c) ==
    /\ rlPc[c] = "expire"
    \* EXPIRE on a key that does not exist does nothing
    /\ expireAt' = IF zset = {} THEN NoTime ELSE now + window_size
    /\ rlPc' = [rlPc EXCEPT ![c] = "idle"]
    /\ rlAdmitted' = [rlAdmitted EXCEPT ![rlTime[c]] = @ + 1]
    /\ rlLast' = RlNoDecision
    /\ UNCHANGED <<now, window_size, max_requests, zset, rlTime, rlCount,
                   rlOverlap>>
    /\ UNCHANGED <<lbVars, cbVars, kvVars, crVars, apVars, cfVars>>

\* Time passes; the store drops the key when its expiry time is reached.
RlTick ==
    /\ Tick
    /\ IF expireAt # NoTime /\ now' >= expireAt
       THEN zset' = {} /\ expireAt' = NoTime
       ELSE UNCHANGED <<zset, expireAt>>
    /\ rlLast' = RlNoDecision
    /\ UNCHANGED <<window_size, max_requests, rlPc, rlTime, rlCount,
                   rlAdmitted, rlOverlap>>
    /\ UNCHANGED <<lbVars, cbVars, kvVars, crVars, apVars, cfVars>>

\* The store command the call awaits fails (the store is unreachable, the
\* connection drops, the command errors).  is_allowed has no handler, so the
\* exception leaves the call; the command has had no effect.
RlStoreFault(c) ==
    /\ rlPc[c] \in {"zremrangebyscore", "zcard", "zadd", "expire"}
    /\ rlPc' = [rlPc EXCEPT ![c] = "idle"]
    /\ rlLast' = [ev |-> "raise", caller |-> c]
    /\ UNCHANGED <<now, window_size, max_requests, zset, expireAt, rlTime,
                   rlCount, rlAdmitted, rlOverlap>>
    /\ UNCHANGED <<lbVars, cbVars, kvVars, crVars, apVars, cfVars>>

RlNext ==
    \/ \E c \in Callers : RlStart(c)
    \/ \E c \in Callers : RlPrune(c)
    \/ \E c \in Callers : RlCount(c)
    \/ \E c \in Callers : RlAdd(c)
    \/ \E c \in Callers : RlExpire(c)
    \/ \E c \in Callers : RlStoreFault(c)
    \/ RlTick

(***************************************************************************)
(* The Ephemeral Store, and the cache and session facades over it:         *)
(* cache.CacheManager (pickle, synchronous client), scaling.CacheManager   *)
(* and scaling.SessionManager (JSON, asynchronous client).                 *)
(***************************************************************************)

\* The empty store.
NoKeys == <<>>

\* f"session:{session_id}".  A key is the sequence of the tokens of its
\* string; ":" is a token of its own.
SessionKey(id) == <<"session", ":", id>>

\* GET key: the data under the key, if the key is held.  The store drops a
\* key when its time-to-live has elapsed (KvTick), so a held key is live.
StoreHas(store, k) == k \in DOMAIN store

\* SETEX key ttl data: the data replaces what the key held, and the key's
\* time-to-live restarts at ttl.
StoreSetex(store, k, ttl, data, t) ==
    (k :> [data |-> data, exp |-> t + ttl]) @@ store

\* DEL key...: the keys are removed; the reply counts those that were held.
StoreDel(store, ks) == [k \in (DOMAIN store) \ ks |-> store[k]]

\* KEYS pattern, for the patterns "<prefix>*": the held keys that start
\* with the prefix.
IsPrefix(p, k) == Len(p) <= Len(k) /\ SubSeq(k, 1, Len(p)) = p
StoreKeys(store, p) == {k \in DOMAIN store : IsPrefix(p, k)}

\* The store drops the keys whose expiry time has been reached.
StoreExpire(store, t) == [k \in {j \in DOMAIN store : store[j].exp > t}
                            |-> store[k]]

\* pickle.dumps(value), pickle.loads(data): every value of the model can be
\* pickled, and unpickling gives the value back.  Data that is not a pickle
\* makes pickle.loads raise.
PickleDumps(v) == [enc |-> "pickle", text |-> v]
IsPickle(d) == d.enc = "pickle"
PickleLoads(d) == d.text

\* json.dumps(value): a tuple is written as an array, as a list is; a
\* datetime is not JSON serializable and makes json.dumps raise TypeError.
JsonSerializable(v) == v # "datetime"
JsonText(v) == IF v \in {"tuple", "list"} THEN "[1, 2]" ELSE "\"text\""
JsonDumps(v) == [enc |-> "json", text |-> JsonText(v)]
\* json.loads(data): an array is read as a list.  Data that is not JSON
\* makes json.loads raise.
IsJson(d) == d.enc = "json"
JsonLoads(d) == IF d.text = "[1, 2]" THEN "list" ELSE "text"

\* What an operation of a facade gives its caller.
Miss == [kind |-> "miss", v |-> "", n |-> 0]
Value(v) == [kind |-> "value", v |-> v, n |-> 0]
RetTrue == [kind |-> "true", v |-> "", n |-> 0]
RetFalse == [kind |-> "false", v |-> "", n |-> 0]
RetCount(n) == [kind |-> "count", v |-> "", n |-> n]
RetNone == [kind |-> "none", v |-> "", n |-> 0]
Raises == [kind |-> "raise", v |-> "", n |-> 0]

\* cache.CacheManager._initialize: the first use connects and pings; a
\* failure leaves redis_client None, and _initialized is set either way.
CmInitializeAlways(initd, client, up) ==
    [initialized |-> TRUE, client |-> up]
CmInitialize(initd, client, up) ==
    IF initd THEN [initialized |-> TRUE, client |-> client]
    ELSE [initialized |-> TRUE, client |-> up]

\* cache.CacheManager.get: the outcome, and whether a fault was absorbed.
cache_get(client, up, store, k) ==
    IF ~client THEN [out |-> Miss, fault |-> TRUE]
    ELSE IF ~up THEN [out |-> Miss, fault |-> TRUE]
    ELSE IF ~StoreHas(store, k) THEN [out |-> Miss, fault |-> FALSE]
    ELSE IF IsPickle(store[k].data)
         THEN [out |-> Value(PickleLoads(store[k].data)), fault |-> FALSE]
         ELSE [out |-> Miss, fault |-> TRUE]

\* if expire is None: expire = 300
CmExpire(expire) == IF expire = NoneExpire THEN DefaultExpire ELSE expire

\* cache.CacheManager.set: the outcome and the store after the call.
cache_set(client, up, store, k, v, expire, t) ==
    IF ~client \/ ~up THEN [out |-> RetFalse, store |-> store]
    ELSE [out |-> RetTrue,
          store |-> StoreSetex(store, k, CmExpire(expire), PickleDumps(v), t)]

\* cache.CacheManager.delete
cache_delete(client, up, store, k) ==
    IF ~client \/ ~up THEN [out |-> RetFalse, store |-> store]
    ELSE [out |-> IF StoreHas(store, k) THEN RetTrue ELSE RetFalse,
          store |-> StoreDel(store, {k})]

\* cache.CacheManager.clear_pattern
cache_clear_pattern(client, up, store, p) ==
    IF ~client \/ ~up THEN [out |-> RetCount(0), store |-> store]
    ELSE LET keys == StoreKeys(store, p) IN
         [out |-> RetCount(Cardinality(keys)), store |-> StoreDel(store, keys)]

\* scaling.CacheManager.get / SessionManager.get_session: no handler, so a
\* failing store command or failing json.loads leaves the call.
json_get(up, store, k) ==
    IF ~up THEN [out |-> Raises, fault |-> TRUE]
    ELSE IF ~StoreHas(store, k) THEN [out |-> Miss, fault |-> FALSE]
    ELSE IF IsJson(store[k].data)
         THEN [out |-> Value(JsonLoads(store[k].data)), fault |-> FALSE]
         ELSE [out |-> Raises, fault |-> TRUE]

\* scaling.CacheManager.set / SessionManager.create_session, update_session:
\* json.dumps runs before the store command is awaited.
json_set(up, store, k, v, ttl, t) ==
    IF ~JsonSerializable(v) \/ ~up THEN [out |-> Raises, store |-> store]
    ELSE [out |-> RetNone,
          store |-> StoreSetex(store, k, ttl, JsonDumps(v), t)]

\* scaling.CacheManager.delete / SessionManager.delete_session
json_delete(up, store, k) ==
    IF ~up THEN [out |-> Raises, store |-> store]
    ELSE [out |-> RetNone, store |-> StoreDel(store, {k})]

NoKvOp == [facade |-> "none", op |-> "none", key |-> <<>>, out |-> RetNone,
           fault |-> FALSE, down |-> FALSE]
CpIdle == [busy |-> FALSE, keys |-> {}]

KvInit ==
    /\ kv = NoKeys
    /\ storeUp = TRUE
    /\ cmInitialized = FALSE
    /\ cmClient = FALSE
    /\ cpPending = CpIdle
    /\ kvLast = NoKvOp
    /\ kvWritten = NoKeys

\* What a caller that stored v under k with a time-to-live expects to read
\* back until the time-to-live has elapsed.
Remember(w, k, v, ttl, t) == (k :> [v |-> v, exp |-> t + ttl]) @@ w
Forget(w, ks) == [k \in (DOMAIN w) \ ks |-> w[k]]

\* cache.CacheManager.get(key)
CmGet(k) ==
    LET i == CmInitialize(cmInitialized, cmClient, storeUp)
        r == cache_get(i.client, storeUp, kv, k)
    IN  /\ cmInitialized' = i.initialized
        /\ cmClient' = i.client
        /\ kvLast' = [facade |-> "cache", op |-> "get", key |-> k,
                      out |-> r.out, fault |-> r.fault,
                      down |-> ~i.client \/ ~storeUp]
        /\ UNCHANGED <<kv, storeUp, cpPending, kvWritten>>
        /\ UNCHANGED <<now, lbVars, cbVars, rlVars, crVars, apVars, cfVars>>

\* cache.CacheManager.set(key, value, expire)
CmSet(k, v, expire) ==
    LET i == CmInitialize(cmInitialized, cmClient, storeUp)
        r == cache_set(i.client, storeUp, kv, k, v, expire, now)
    IN  /\ cmInitialized' = i.initialized
        /\ cmClient' = i.client
        /\ kv' = r.store
        /\ kvWritten' = IF r.out = RetTrue
                        THEN Remember(kvWritten, k, v, CmExpire(expire), now)
                        ELSE kvWritten
        /\ kvLast' = [facade |-> "cache", op |-> "set", key |-> k,
                      out |-> r.out, fault |-> r.out # RetTrue,
                      down |-> ~i.client \/ ~storeUp]
        /\ UNCHANGED <<storeUp, cpPending>>
        /\ UNCHANGED <<now, lbVars, cbVars, rlVars, crVars, apVars, cfVars>>

\* cache.CacheManager.delete(key)
CmDelete(k) ==
    LET i == CmInitialize(cmInitialized, cmClient, storeUp)
        r == cache_delete(i.client, storeUp, kv, k)
    IN  /\ cmInitialized' = i.initialized
        /\ cmClient' = i.client
        /\ kv' = r.store
        /\ kvWritten' = IF i.client /\ storeUp THEN Forget(kvWritten, {k})
                        ELSE kvWritten
        /\ kvLast' = [facade |-> "cache", op |-> "delete", key |-> k,
                      out |-> r.out, fault |-> ~i.client \/ ~storeUp,
                      down |-> ~i.client \/ ~storeUp]
        /\ UNCHANGED <<storeUp, cpPending>>
        /\ UNCHANGED <<now, lbVars, cbVars, rlVars, crVars, apVars, cfVars>>

\* cache.CacheManager.clear_pattern(pattern)
CmClearPattern(p) ==
    LET i == CmInitialize(cmInitialized, cmClient, storeUp)
        r == cache_clear_pattern(i.client, storeUp, kv, p)
    IN  /\ cmInitialized' = i.initialized
        /\ cmClient' = i.client
        /\ kv' = r.store
        /\ kvWritten' = IF i.client /\ storeUp
                        THEN Forget(kvWritten, StoreKeys(kv, p))
                        ELSE kvWritten
        /\ kvLast' = [facade |-> "cache", op |-> "clear_pattern", key |-> p,
                      out |-> r.out, fault |-> ~i.client \/ ~storeUp,
                      down |-> ~i.client \/ ~storeUp]
        /\ UNCHANGED <<storeUp, cpPending>>
        /\ UNCHANGED <<now, lbVars, cbVars, rlVars, crVars, apVars, cfVars>>

\* The get, set and delete of the JSON facades: one awaited store command.
JsonGet(facade, k) ==
    LET r == json_get(storeUp, kv, k) IN
    /\ kvLast' = [facade |-> facade, op |-> "get", key |-> k, out |-> r.out,
                  fault |-> r.fault, down |-> ~storeUp]
    /\ UNCHANGED <<kv, storeUp, cmInitialized, cmClient, cpPending,
                   kvWritten>>
    /\ UNCHANGED <<now, lbVars, cbVars, rlVars, crVars, apVars, cfVars>>

JsonSet(facade, k, v, ttl) ==
    LET r == json_set(storeUp, kv, k, v, ttl, now) IN
    /\ kv' = r.store
    /\ kvWritten' = IF r.out = RetNone
                    THEN Remember(kvWritten, k, v, ttl, now) ELSE kvWritten
    /\ kvLast' = [facade |-> facade, op |-> "set", key |-> k, out |-> r.out,
                  fault |-> r.out # RetNone, down |-> ~storeUp]
    /\ UNCHANGED <<storeUp, cmInitialized, cmClient, cpPending>>
    /\ UNCHANGED <<now, lbVars, cbVars, rlVars, crVars, apVars, cfVars>>

JsonDelete(facade, k) ==
    LET r == json_delete(storeUp, kv, k) IN
    /\ kv' = r.store
    /\ kvWritten' = IF storeUp THEN Forget(kvWritten, {k}) ELSE kvWritten
    /\ kvLast' = [facade |-> facade, op |-> "delete", key |-> k,
                  out |-> r.out, fault |-> ~storeUp, down |-> ~storeUp]
    /\ UNCHANGED <<storeUp, cmInitialized, cmClient, cpPending>>
    /\ UNCHANGED <<now, lbVars, cbVars, rlVars, crVars, apVars, cfVars>>

\* scaling.CacheManager.get(key), set(key, value, ttl), delete(key)
ScGet(k) == k \in CacheKeys /\ JsonGet("scaling_cache", k)
ScSet(k, v, ttl) == k \in CacheKeys /\ JsonSet("scaling_cache", k, v, ttl)
ScDelete(k) == k \in CacheKeys /\ JsonDelete("scaling_cache", k)

\* scaling.CacheManager.clear_pattern(pattern): keys = await redis.keys()
ScClearKeys(p) ==
    /\ ~cpPending.busy
    /\ cpPending' = IF storeUp /\ StoreKeys(kv, p) # {}
                    THEN [busy |-> TRUE, keys |-> StoreKeys(kv, p)]
                    ELSE CpIdle
    /\ kvLast' = [facade |-> "scaling_cache", op |-> "clear_pattern",
                  key |-> p, out |-> IF storeUp THEN RetNone ELSE Raises,
                  fault |-> ~storeUp, down |-> ~storeUp]
    /\ UNCHANGED <<kv, storeUp, cmInitialized, cmClient, kvWritten>>
    /\ UNCHANGED <<now, lbVars, cbVars, rlVars, crVars, apVars, cfVars>>

\* scaling.CacheManager.clear_pattern: await redis.delete(*keys)
ScClearDelete ==
    /\ cpPending.busy
    /\ cpPending' = CpIdle
    /\ kv' = IF storeUp THEN StoreDel(kv, cpPending.keys) ELSE kv
    /\ kvWritten' = IF storeUp THEN Forget(kvWritten, cpPending.keys)
                    ELSE kvWritten
    /\ kvLast' = [facade |-> "scaling_cache", op |-> "clear_pattern",
                  key |-> <<>>, out |-> IF storeUp THEN RetNone ELSE Raises,
                  fault |-> ~storeUp, down |-> ~storeUp]
    /\ UNCHANGED <<storeUp, cmInitialized, cmClient>>
    /\ UNCHANGED <<now, lbVars, cbVars, rlVars, crVars, apVars, cfVars>>

\* SessionManager.create_session, get_session, update_session,
\* delete_session
SmCreate(id, v, ttl) ==
    id \in SessionIds /\ JsonSet("session", SessionKey(id), v, ttl)
SmGet(id) == id \in SessionIds /\ JsonGet("session", SessionKey(id))
SmUpdate(id, v, ttl) ==
    id \in SessionIds /\ JsonSet("session", SessionKey(id), v, ttl)
SmDelete(id) == id \in SessionIds /\ JsonDelete("session", SessionKey(id))

\* The store becomes unreachable, or reachable again; it keeps its data.
StoreFlip ==
    /\ storeUp' = ~storeUp
    /\ kvLast' = NoKvOp
    /\ UNCHANGED <<kv, cmInitialized, cmClient, cpPending, kvWritten>>
    /\ UNCHANGED <<now, lbVars, cbVars, rlVars, crVars, apVars, cfVars>>

\* Time passes; the store drops the keys whose time-to-live has elapsed.
KvTick ==
    /\ Tick
    /\ kv' = StoreExpire(kv, now')
    /\ kvWritten' = StoreExpire(kvWritten, now')
    /\ kvLast' = NoKvOp
    /\ UNCHANGED <<storeUp, cmInitialized, cmClient, cpPending>>
    /\ UNCHANGED <<lbVars, cbVars, rlVars, crVars, apVars, cfVars>>

KvNext ==
    \/ \E k \in CacheKeys : CmGet(k)
    \/ \E k \in CacheKeys, v \in Values, e \in Expires : CmSet(k, v, e)
    \/ \E k \in CacheKeys : CmDelete(k)
    \/ \E p \in Patterns : CmClearPattern(p)
    \/ \E k \in CacheKeys : ScGet(k)
    \/ \E k \in CacheKeys, v \in Values, t \in Ttls : ScSet(k, v, t)
    \/ \E k \in CacheKeys : ScDelete(k)
    \/ \E p \in Patterns : ScClearKeys(p)
    \/ ScClearDelete
    \/ \E id \in SessionIds, v \in Values, t \in Ttls : SmCreate(id, v, t)
    \/ \E id \in SessionIds : SmGet(id)
    \/ \E id \in SessionIds, v \in Values, t \in Ttls : SmUpdate(id, v, t)
    \/ \E id \in SessionIds : SmDelete(id)
    \/ StoreFlip
    \/ KvTick

(***************************************************************************)
(* cache.cache_result, as applied to api.characters.get_character.         *)
(***************************************************************************)

\* ":".join(str(part) for part in parts): the parts, with ":" between them.
RECURSIVE cache_key(_)
cache_key(parts) ==
    IF parts = <<>> THEN <<>>
    ELSE IF Len(parts) = 1 THEN parts[1]
    ELSE parts[1] \o <<":">> \o cache_key(Tail(parts))

\* str(character_id): the path parameter arrives as an int or as the string
\* of its digits, and str() gives the digits of either.
StrOfId(cid) == ToString(cid)

\* str(db): a Session has no __str__ of its own, so the text is the default
\* "<... Session object at 0x...>", which names the address of the object.
StrOfSession(addr) == "<Session object at " \o addr \o ">"

\* The arguments of one invocation of get_character(character_id, db), as
\* the caller passes them: by position or by keyword.
PositionalArgs(cid, addr, style) ==
    IF style = "positional" THEN <<StrOfId(cid), StrOfSession(addr)>>
    ELSE <<>>
\* sorted(kwargs.items()): "character_id" sorts before "db"
SortedKwargs(cid, addr, style) ==
    IF style = "keyword"
    THEN <<[k |-> "character_id", v |-> StrOfId(cid)],
           [k |-> "db", v |-> StrOfSession(addr)]>>
    ELSE <<>>

\* cache_result.wrapper: key_parts = [key_prefix, func.__name__], then
\* str(arg) for every positional argument, then f"{k}:{v}" for every
\* keyword argument in sorted order.
WrapperKeyParts(prefix, name, args, kwargs) ==
    <<<<prefix>>, <<name>>>>
        \o [i \in 1..Len(args) |-> <<args[i]>>]
        \o [i \in 1..Len(kwargs) |-> <<kwargs[i].k, ":", kwargs[i].v>>]

WrapperKey(cid, addr, style) ==
    cache_key(WrapperKeyParts("character_detail", "get_character",
                              PositionalArgs(cid, addr, style),
                              SortedKwargs(cid, addr, style)))

\* The response get_character builds for a character.
ResponseOf(cid) == "character " \o ToString(cid)

\* invalidate_character_cache(character_id), called by get_character before
\* it returns: clear_pattern("character:*") and
\* clear_pattern(f"character:{character_id}:*").
InvalidatePatterns(cid) ==
    {<<"character", ":">>, <<"character", ":", StrOfId(cid), ":">>}

CrIdle == [busy |-> FALSE, key |-> <<>>, cid |-> 0]
NoLookup == [op |-> "none", cid |-> 0, key |-> <<>>, hit |-> FALSE,
             prior |-> FALSE, priorKey |-> <<>>]

CrInit ==
    /\ crPc = [c \in Callers |-> CrIdle]
    /\ crLast = NoLookup
    /\ crWrote = NoKeys

\* wrapper: the key is built and looked up; a hit is returned, a miss goes
\* on to await func(*args, **kwargs).
CrEnter(c, cid, addr, style) ==
    /\ ~crPc[c].busy
    /\ Cardinality(DOMAIN kv) + Cardinality({d \in Callers : crPc[d].busy})
          < MaxEntries
    /\ LET key == WrapperKey(cid, addr, style)
           i == CmInitialize(cmInitialized, cmClient, storeUp)
           r == cache_get(i.client, storeUp, kv, key)
           hit == r.out.kind = "value"
       IN  /\ cmInitialized' = i.initialized
           /\ cmClient' = i.client
           /\ crPc' = IF hit THEN crPc
                      ELSE [crPc EXCEPT ![c] = [busy |-> TRUE, key |-> key,
                                                cid |-> cid]]
           /\ crLast' = [op |-> "lookup", cid |-> cid, key |-> key,
                         hit |-> hit,
                         prior |-> cid \in DOMAIN crWrote,
                         priorKey |-> IF cid \in DOMAIN crWrote
                                      THEN crWrote[cid].key ELSE <<>>]
    /\ UNCHANGED <<kv, storeUp, cpPending, kvLast, kvWritten, crWrote>>
    /\ UNCHANGED <<now, lbVars, cbVars, rlVars, apVars, cfVars>>

\* wrapper: func returns its result, which is stored under the key for
\* expire seconds and returned.
CrReturn(c) ==
    /\ crPc[c].busy
    /\ LET key == crPc[c].key
           cid == crPc[c].cid
           cleared == IF cmClient /\ storeUp
                      THEN StoreDel(kv, UNION {StoreKeys(kv, p) :
                                               p \in InvalidatePatterns(cid)})
                      ELSE kv
           r == cache_set(cmClient, storeUp, cleared, key, ResponseOf(cid),
                          CharacterDetailExpire, now)
       IN  /\ kv' = r.store
           /\ kvWritten' =
                 IF r.out = RetTrue
                 THEN Remember(Forget(kvWritten,
                                      (DOMAIN kv) \ (DOMAIN cleared)),
                               key, ResponseOf(cid), CharacterDetailExpire,
                               now)
                 ELSE kvWritten
           /\ crWrote' = IF r.out = RetTrue
                         THEN (cid :> [key |-> key,
                                       exp |-> now + CharacterDetailExpire])
                                  @@ crWrote
                         ELSE crWrote
    /\ crPc' = [crPc EXCEPT ![c] = CrIdle]
    /\ crLast' = [NoLookup EXCEPT !.op = "return", !.cid = crPc[c].cid,
                                  !.key = crPc[c].key]
    /\ UNCHANGED <<storeUp, cmInitialized, cmClient, cpPending, kvLast>>
    /\ UNCHANGED <<now, lbVars, cbVars, rlVars, apVars, cfVars>>

\* wrapper: func raises (character not found, database error); the
\* exception is logged and raised again, and nothing is stored.
CrRaise(c) ==
    /\ crPc[c].busy
    /\ crPc' = [crPc EXCEPT ![c] = CrIdle]
    /\ crLast' = NoLookup
    /\ UNCHANGED <<crWrote, kvVars>>
    /\ UNCHANGED <<now, lbVars, cbVars, rlVars, apVars, cfVars>>

\* Time passes; entries whose time-to-live has elapsed are dropped.
CrTick ==
    /\ Tick
    /\ kv' = StoreExpire(kv, now')
    /\ kvWritten' = StoreExpire(kvWritten, now')
    /\ crWrote' = StoreExpire(crWrote, now')
    /\ crLast' = NoLookup
    /\ UNCHANGED <<storeUp, cmInitialized, cmClient, cpPending, kvLast, crPc>>
    /\ UNCHANGED <<lbVars, cbVars, rlVars, apVars, cfVars>>

CrNext ==
    \/ \E c \in Callers, cid \in CharIds, addr \in Addresses,
          style \in CallStyles : CrEnter(c, cid, addr, style)
    \/ \E c \in Callers : CrReturn(c)
    \/ \E c \in Callers : CrRaise(c)
    \/ CrTick

(***************************************************************************)
(* The process: setup_scaling, the requests it serves, the aggregate       *)
(* health check and graceful_shutdown.                                     *)
(***************************************************************************)

\* The aggregate health_check: the report, computed as the code assigns it.
\* dbCtor: DatabasePool(...) could be constructed; dbOk: what its
\* health_check() returned; redis: "none" (middleware.redis_client is None),
\* "pong" or "error" (ping raised); mem: memory.percent, or NoMemory.
health_check(dbCtor, dbOk, redis, mem) ==
    LET s0 == "healthy"
        database == dbCtor /\ dbOk
        s1 == IF ~dbCtor THEN "unhealthy" ELSE s0
        redisOk == redis = "pong"
        s2 == IF ~redisOk THEN "unhealthy" ELSE s1
        s3 == IF mem # NoMemory /\ mem > MemoryHighWater THEN "degraded"
              ELSE s2
    IN  [status |-> s3, database |-> database, redis |-> redisOk,
         memory |-> mem]

NoEvent == [ev |-> "none", status |-> "none", database |-> FALSE,
            redis |-> FALSE, memory |-> NoMemory, phase |-> "none"]

ApInit ==
    /\ apPhase = "startup"
    /\ apTimeout \in 1..MaxGrace
    /\ apClient = "none"
    /\ apStoreCreated = 0
    /\ apStoreClosed = 0
    /\ apPoolsCreated = 0
    /\ apOld = 0
    /\ apNew = 0
    /\ apShutdownAt = NoTime
    /\ apLast = NoEvent

\* setup_scaling: ScalingMiddleware(app, config).initialize() creates the
\* store client; app.state holds the middleware and the config.
SetupScaling ==
    /\ apPhase = "startup"
    /\ apPhase' = "running"
    /\ apClient' = "open"
    /\ apStoreCreated' = apStoreCreated + 1
    /\ apLast' = [NoEvent EXCEPT !.ev = "setup"]
    /\ UNCHANGED <<apTimeout, apStoreClosed, apPoolsCreated, apOld, apNew,
                   apShutdownAt>>
    /\ UNCHANGED <<now, lbVars, cbVars, rlVars, kvVars, crVars, cfVars>>

\* A request arrives and its handler starts.  Nothing in the process looks
\* at whether graceful_shutdown has begun.
RequestArrive ==
    /\ apPhase \in {"running", "draining"}
    /\ apOld + apNew < MaxInflight
    /\ IF apPhase = "running"
       THEN apOld' = apOld + 1 /\ UNCHANGED apNew
       ELSE apNew' = apNew + 1 /\ UNCHANGED apOld
    /\ apLast' = [NoEvent EXCEPT !.ev = "admit", !.phase = apPhase]
    /\ UNCHANGED <<apPhase, apTimeout, apClient, apStoreCreated,
                   apStoreClosed, apPoolsCreated, apShutdownAt>>
    /\ UNCHANGED <<now, lbVars, cbVars, rlVars, kvVars, crVars, cfVars>>

\* A request's handler returns.
RequestDone ==
    /\ apOld + apNew > 0
    /\ \/ apOld > 0 /\ apOld' = apOld - 1 /\ UNCHANGED apNew
       \/ apNew > 0 /\ apNew' = apNew - 1 /\ UNCHANGED apOld
    /\ apLast' = [NoEvent EXCEPT !.ev = "done", !.phase = apPhase]
    /\ UNCHANGED <<apPhase, apTimeout, apClient, apStoreCreated,
                   apStoreClosed, apPoolsCreated, apShutdownAt>>
    /\ UNCHANGED <<now, lbVars, cbVars, rlVars, kvVars, crVars, cfVars>>

\* health_check(request): a DatabasePool is constructed for the call, the
\* store is pinged through the middleware's client, memory is read.
HealthCheck(dbCtor, dbOk, ping, mem) ==
    /\ apPhase \in {"running", "draining"}
    /\ apPoolsCreated < MaxHealthChecks
    /\ apPoolsCreated' = IF dbCtor THEN apPoolsCreated + 1 ELSE apPoolsCreated
    /\ LET redis == IF apClient = "none" THEN "none" ELSE ping
           r == health_check(dbCtor, dbOk, redis, mem)
       IN  apLast' = [ev |-> "health", status |-> r.status,
                      database |-> r.database, redis |-> r.redis,
                      memory |-> r.memory, phase |-> apPhase]
    /\ UNCHANGED <<apPhase, apTimeout, apClient, apStoreCreated,
                   apStoreClosed, apOld, apNew, apShutdownAt>>
    /\ UNCHANGED <<now, lbVars, cbVars, rlVars, kvVars, crVars, cfVars>>

\* graceful_shutdown: when app.state holds a middleware the call goes to
\* await asyncio.sleep(config.graceful_shutdown_timeout); without one it
\* is over at once.
ShutdownBegin ==
    /\ apPhase \in {"startup", "running"}
    /\ apPhase' = IF apPhase = "startup" THEN "stopped" ELSE "draining"
    /\ apShutdownAt' = now
    /\ apLast' = [NoEvent EXCEPT !.ev = "shutdown", !.phase = apPhase]
    /\ UNCHANGED <<apTimeout, apClient, apStoreCreated, apStoreClosed,
                   apPoolsCreated, apOld, apNew>>
    /\ UNCHANGED <<now, lbVars, cbVars, rlVars, kvVars, crVars, cfVars>>

\* asyncio.sleep(timeout) returns once timeout has passed.
SleepOver(t, since, timeout) == t >= since + timeout

\* graceful_shutdown: the sleep is over; await middleware.cleanup() closes
\* the store client.
ShutdownCleanup ==
    /\ apPhase = "draining"
    /\ SleepOver(now, apShutdownAt, apTimeout)
    /\ apPhase' = "stopped"
    /\ apClient' = IF apClient = "none" THEN "none" ELSE "closed"
    /\ apStoreClosed' = IF apClient = "none" THEN apStoreClosed
                        ELSE apStoreClosed + 1
    /\ apLast' = [NoEvent EXCEPT !.ev = "cleanup", !.phase = apPhase]
    /\ UNCHANGED <<apTimeout, apStoreCreated, apPoolsCreated, apOld, apNew,
                   apShutdownAt>>
    /\ UNCHANGED <<now, lbVars, cbVars, rlVars, kvVars, crVars, cfVars>>

\* Time passes.
ApTick ==
    /\ Tick
    /\ apLast' = [NoEvent EXCEPT !.ev = "tick", !.phase = apPhase]
    /\ UNCHANGED <<apPhase, apTimeout, apClient, apStoreCreated,
                   apStoreClosed, apPoolsCreated, apOld, apNew, apShutdownAt>>
    /\ UNCHANGED <<lbVars, cbVars, rlVars, kvVars, crVars, cfVars>>

ApNext ==
    \/ SetupScaling
    \/ RequestArrive
    \/ RequestDone
    \/ \E dbCtor \in BOOLEAN, dbOk \in BOOLEAN, ping \in {"pong", "error"},
          mem \in MemoryReadings : HealthCheck(dbCtor, dbOk, ping, mem)
    \/ ShutdownBegin
    \/ ShutdownCleanup
    \/ ApTick

(***************************************************************************)
(* create_scaling_config                                                   *)
(***************************************************************************)

\* class ScalingMode(Enum): the values of the four members.
ScalingModes == {"development", "staging", "production", "high_traffic"}

\* A member of ScalingMode.  A member of a plain Enum equals no string, not
\* even its own value.
EnumMember(value) == [type |-> "ScalingMode", value |-> value]

\* What a caller can pass as mode: a member of the enumeration, a string
\* (the value of a member, or another word), None.
ModeInputs ==
    {EnumMember(m) : m \in ScalingModes}
      \cup {[type |-> "str", value |-> m] :
               m \in {"development", "production", "canary"}}
      \cup {[type |-> "NoneType", value |-> "None"]}

\* The fields of the dataclass ScalingConfig.
ConfigFields ==
    {"mode", "max_workers", "connection_pool_size", "redis_connections",
     "cache_ttl", "enable_load_balancing", "enable_circuit_breaker",
     "enable_rate_limiting", "enable_session_affinity",
     "health_check_interval", "graceful_shutdown_timeout"}

\* ScalingConfig(mode=..., max_workers=..., ...)
ScalingConfig(mode, workers, pool, conns, ttl, enabled, interval, timeout) ==
    [mode |-> mode, max_workers |-> workers, connection_pool_size |-> pool,
     redis_connections |-> conns, cache_ttl |-> ttl,
     enable_load_balancing |-> enabled, enable_circuit_breaker |-> enabled,
     enable_rate_limiting |-> enabled, enable_session_affinity |-> enabled,
     health_check_interval |-> interval,
     graceful_shutdown_timeout |-> timeout]

\* The dict configs of create_scaling_config, keyed by the enum members.
configs ==
    (EnumMember("development") :>
        ScalingConfig(EnumMember("development"), 1, 5, 5, 300, FALSE, 30, 10))
    @@ (EnumMember("staging") :>
        ScalingConfig(EnumMember("staging"), 2, 10, 10, 600, TRUE, 20, 15))
    @@ (EnumMember("production") :>
        ScalingConfig(EnumMember("production"), 4, 20, 20, 1800, TRUE, 10, 30))
    @@ (EnumMember("high_traffic") :>
        ScalingConfig(EnumMember("high_traffic"), 8, 50, 50, 3600, TRUE, 5,
                      60))

\* dict.get(key, default)
DictGet(d, key, default) == IF key \in DOMAIN d THEN d[key] ELSE default

\* return configs.get(mode, configs[ScalingMode.PRODUCTION])
create_scaling_config_dev(mode) ==
    DictGet(configs, mode, configs[EnumMember("development")])
create_scaling_config(mode) ==
    DictGet(configs, mode, configs[EnumMember("production")])

\* No call of create_scaling_config has been made.
CfInit == cfLog = <<>>

\* A call create_scaling_config(mode).
CreateScalingConfig(mode) ==
    /\ Len(cfLog) < MaxCalls
    /\ cfLog' = Append(cfLog, [mode |-> mode,
                               config |-> create_scaling_config(mode)])
    /\ UNCHANGED <<now, lbVars, cbVars, rlVars, kvVars, crVars, apVars>>

CfNext == \E mode \in ModeInputs : CreateScalingConfig(mode)

(***************************************************************************)
(* Specifications: one per component, the others at rest.                  *)
(***************************************************************************)

\* The configuration of the components a specification leaves at rest.
CbAtRest == CbInit /\ failure_threshold = 1 /\ recovery_timeout = 1
RlAtRest == RlInit /\ window_size = 1 /\ max_requests = 1

ApAtRest == ApInit /\ apTimeout = 1
StoreAtRest == KvInit /\ CrInit

InitLB ==
    LbInit /\ now = 0 /\ CbAtRest /\ RlAtRest /\ StoreAtRest /\ ApAtRest
      /\ CfInit
InitLW ==
    LbInit /\ now = 0 /\ CbAtRest /\ RlAtRest /\ StoreAtRest /\ ApAtRest
      /\ CfInit
InitCB ==
    LbInit /\ now = 0 /\ CbInit /\ RlAtRest /\ StoreAtRest /\ ApAtRest
      /\ CfInit
InitRL ==
    LbInit /\ now = 0 /\ CbAtRest /\ RlInit /\ StoreAtRest /\ ApAtRest
      /\ CfInit
InitKV ==
    LbInit /\ now = 0 /\ CbAtRest /\ RlAtRest /\ StoreAtRest /\ ApAtRest
      /\ CfInit
InitCR ==
    LbInit /\ now = 0 /\ CbAtRest /\ RlAtRest /\ StoreAtRest /\ ApAtRest
      /\ CfInit
InitCF ==
    LbInit /\ now = 0 /\ CbAtRest /\ RlAtRest /\ StoreAtRest /\ ApAtRest
      /\ CfInit
InitAP ==
    LbInit /\ now = 0 /\ CbAtRest /\ RlAtRest /\ StoreAtRest /\ ApInit
      /\ CfInit

SpecLB == InitLB /\ [][LbNext]_vars

\* The load balancer with weighted selection only.
SpecLW == InitLW /\ [][LwNext]_vars

SpecCB == InitCB /\ [][CbNext]_vars

SpecRL == InitRL /\ [][RlNext]_vars

\* The cache and session facades over the store.
SpecKV == InitKV /\ [][KvNext]_vars

\* Requests for characters through the cache_result wrapper.
SpecCR == InitCR /\ [][CrNext]_vars

\* The process from startup to shutdown.
SpecAP == InitAP /\ [][ApNext]_vars

\* Calls of create_scaling_config.
SpecCF == InitCF /\ [][CfNext]_vars

(***************************************************************************)
(* Properties of the load balancer, checked under SpecLB.                  *)
(***************************************************************************)

Healthy == get_healthy_instances(instances, health_status)

\* The slot of the healthy list that holds instance p.
SlotOf(h, p) == CHOOSE k \in 1..Len(h) : h[k] = p

\* C1: while the healthy set stays as it is, round_robin selections walk
\* the healthy instances in registration order and wrap around, so that any
\* N selections in a row hold each of the N instances once; the cursor
\* values handed out are consecutive and the cursor is one past the last.
C1_RoundRobinCycles ==
    LET h == Healthy
        N == Len(h)
        L == Len(rrLog)
    IN  rrLog # <<>> =>
          /\ N > 0
          /\ \A k \in 1..L : \E j \in 1..N : h[j] = rrLog[k].pos
          /\ \A k \in 1..(L - 1) :
                /\ rrLog[k + 1].cursor = rrLog[k].cursor + 1
                /\ SlotOf(h, rrLog[k + 1].pos)
                     = (SlotOf(h, rrLog[k].pos) % N) + 1
          /\ current_index = rrLog[L].cursor + 1
          /\ \A s \in 1..(L - N + 1) :
                {rrLog[j].pos : j \in s..(s + N - 1)} = {h[j] : j \in 1..N}

\* Three selections in a row over two healthy instances: the third wraps.
C1_Witness == Len(rrLog) >= 3 /\ Len(Healthy) = 2

\* C2: whatever the algorithm, the instance select_instance returns is
\* healthy when the call is made; with one healthy instance left,
\* round_robin returns that instance.
C2_SelectReturnsHealthy ==
    lbLast.op = "select" =>
      /\ lbLast.out.pos # 0 =>
            /\ lbLast.out.pos \in 1..Len(instances)
            /\ health_status[instances[lbLast.out.pos].id] = "true"
      /\ (lbLast.alg = "round_robin" /\ Len(Healthy) = 1) =>
            lbLast.out.pos = Healthy[1]

\* A and B are registered, one of them is marked unhealthy, and a repeated
\* round_robin selection returned the other.
C2_Witness ==
    /\ lbLast.op = "select"
    /\ lbLast.alg = "round_robin"
    /\ lbLast.out.pos # 0
    /\ current_index >= 2
    /\ Len(instances) = 2
    /\ instances[1].id # instances[2].id
    /\ \E k \in 1..2 : health_status[instances[k].id] = "false"

\* C3, as claimed: with no healthy instance, select_instance signals an
\* error to its caller instead of returning.
C3_NoHealthyRaisesError ==
    (lbLast.op = "select" /\ Healthy = <<>>) => lbLast.out.kind = "raise"

\* C3, amended: with no healthy instance, select_instance returns None to
\* its caller, for every algorithm, and raises nothing.
C3_NoHealthyReturnsNone ==
    (lbLast.op = "select" /\ Healthy = <<>>) =>
        lbLast.out = [kind |-> "return", pos |-> 0]

\* A weighted selection over a registry whose instances are all unhealthy.
C3_Witness ==
    /\ lbLast.op = "select"
    /\ lbLast.alg = "weighted"
    /\ Healthy = <<>>
    /\ Len(instances) > 0

\* C4: the registry holds at most one entry per id, and the instance just
\* registered is healthy.
C4_OneEntryPerId ==
    /\ \A i, j \in 1..Len(instances) :
          instances[i].id = instances[j].id => i = j
    /\ lbLast.op = "register" => health_status[lbLast.id] = "true"

\* C16: when a health_check pass has probed every instance of the list and
\* the registry has not changed since the pass started, each registered
\* instance is healthy exactly when its probe in the pass returned a 2xx
\* status.
C16_HealthyIffProbe2xx ==
    (hcClean /\ hcRest = <<>>) =>
        \A k \in 1..Len(instances) :
            HsGet(health_status, instances[k].id)
                <=> hcSeen[instances[k].id] = "2xx"

\* C17: the healthy flag of every instance dict agrees with the instance's
\* membership in get_healthy_instances().
C17_FlagAgreesWithHealthy ==
    \A k \in 1..Len(instances) :
        instances[k].healthy <=> HsGet(health_status, instances[k].id)

(***************************************************************************)
(* Properties of weighted selection, checked under SpecLW.                 *)
(***************************************************************************)

\* The sum of the weights of the healthy instances before slot k.
RECURSIVE WeightBefore(_, _, _)
WeightBefore(insts, h, k) ==
    IF k <= 1 THEN 0
    ELSE insts[h[k - 1]].weight + WeightBefore(insts, h, k - 1)

\* What select_instance('weighted') returns in the current state when
\* random.uniform gives rand2 / 2.
WeightedOutcome(rand2) ==
    select_instance(instances, health_status, current_index, "weighted",
                    rand2).out

\* How many of the whole-number draws in D select slot k of the healthy list.
DrawsFor(D, k) ==
    Cardinality({r \in D : WeightedOutcome(2 * r).pos = Healthy[k]})

\* A weighted selection has just returned an instance.
WeightedSelected ==
    lbLast.op = "select" /\ lbLast.alg = "weighted" /\ lbLast.out.pos # 0

\* C21, as claimed: over the healthy instances a weighted selection was
\* made from, a draw r in [0, total_weight) returns the instance whose range
\* [weight before it, that + its weight) holds r, and of the draws
\* 0..total_weight-1 each instance gets as many as its weight.
C21_WeightedHalfOpenRanges ==
    LET h == Healthy
        total == TotalWeight(instances, h)
    IN  WeightedSelected =>
          /\ \A rand2 \in 0..(2 * total - 1) :
                \E k \in 1..Len(h) :
                   /\ WeightedOutcome(rand2).pos = h[k]
                   /\ 2 * WeightBefore(instances, h, k) <= rand2
                   /\ rand2 < 2 * (WeightBefore(instances, h, k)
                                     + instances[h[k]].weight)
          /\ \A k \in 1..Len(h) :
                DrawsFor(0..(total - 1), k) = instances[h[k]].weight

\* C21, amended: over the healthy instances a weighted selection was made
\* from, a draw returns the first instance, in registration order, whose
\* cumulative weight is at least the draw: the ranges are closed on the
\* right, (weight before it, that + its weight], and a draw of 0 selects
\* the first instance; of the draws 1..total_weight each instance gets as
\* many as its weight; and what the selection returned is what one of the
\* draws gives.
C21_WeightedClosedRanges ==
    LET h == Healthy
        total == TotalWeight(instances, h)
    IN  WeightedSelected =>
          /\ \A rand2 \in 0..(2 * total) :
                \E k \in 1..Len(h) :
                   /\ WeightedOutcome(rand2).pos = h[k]
                   /\ \/ k = 1 /\ rand2 = 0
                      \/ 2 * WeightBefore(instances, h, k) < rand2
                   /\ rand2 <= 2 * (WeightBefore(instances, h, k)
                                      + instances[h[k]].weight)
          /\ \A k \in 1..Len(h) :
                DrawsFor(1..total, k) = instances[h[k]].weight
          /\ \E rand2 \in 0..(2 * total) : lbLast.out = WeightedOutcome(rand2)

\* A weighted selection over two healthy instances of different weights
\* returned the second: its draw was above the weight of the first.
C21_Witness ==
    /\ lbLast.op = "select"
    /\ lbLast.alg = "weighted"
    /\ Len(Healthy) = 2
    /\ instances[Healthy[1]].weight # instances[Healthy[2]].weight
    /\ lbLast.out.pos = Healthy[2]

(***************************************************************************)
(* Properties of the health check, checked under SpecLB.                   *)
(***************************************************************************)

\* The step of the running health_check pass that marks instance id: the
\* completion of its probe.
MarkStep(id) ==
    \E o \in ProbeOutcomes :
        hcRest # <<>> /\ Head(hcRest) = id /\ HealthCheckProbe(o)

\* C23: while a health_check pass is running, the marking of every
\* instance the pass has yet to mark can happen next: it waits for the
\* instance's own probe only, not for the end of the probe of another
\* instance, however slow that one is.
C23_SlowProbeDelaysNoOther ==
    hcPc = "probing" =>
        \A k \in 1..Len(hcRest) : ENABLED MarkStep(hcRest[k])

\* The ids that have an entry in health_status, and the registered ids.
HealthIds(hs) == {id \in Ids : hs[id] # "absent"}
RegisteredIds(insts) == {insts[k].id : k \in 1..Len(insts)}

\* C27: under every interleaving of health_check with register_instance
\* and deregister_instance, only registered ids have an entry in
\* health_status, and health_check writes the result of a probe only onto
\* an id that is registered when the probe ends (not onto the id of an
\* instance that was deregistered while the probe was in flight).
C27_NoStaleHealthWrite ==
    [][/\ HealthIds(health_status') \subseteq RegisteredIds(instances')
       /\ (lbLast'.op = "health_check" /\ hcRest # <<>>
               /\ hcRest' = Tail(hcRest)) =>
             Head(hcRest) \in RegisteredIds(instances)]_vars

(***************************************************************************)
(* Properties of the circuit breaker, checked under SpecCB.                *)
(***************************************************************************)

Returned == {"value", "error_value"}

\* C5: after failure_threshold failures in a row from CLOSED with count 0
\* the breaker is OPEN, and a call that finds it OPEN with the recovery
\* timeout not elapsed is rejected without func being called.
C5_OpensAtThresholdAndRejects ==
    /\ (cbLast.ev = "expected" /\ cbStreak >= failure_threshold) =>
          cbState = "OPEN"
    /\ (/\ cbLast.ev \in {"admitted", "rejected"}
        /\ cbLast.pre = "OPEN"
        /\ now - last_failure_time <= recovery_timeout) =>
          /\ cbLast.ev = "rejected"
          /\ cbPc[cbLast.caller] = "idle"
          /\ cbState = "OPEN"

\* A call is rejected after two failures in a row opened a breaker whose
\* threshold is two.
C5_Witness ==
    /\ cbLast.ev = "rejected"
    /\ failure_threshold = 2
    /\ cbStreak = 2

\* C6, as claimed: a call let through after the recovery timeout closes the
\* breaker and resets the count when it succeeds.
C6_ProbeSuccessCloses ==
    (cbLast.ev \in Returned /\ cbLast.entry = "probe") =>
        (cbState = "CLOSED" /\ failure_count = 0)

\* C6, amended: a call that finds the breaker OPEN with the recovery timeout
\* elapsed is let through with the breaker HALF_OPEN; when it succeeds and
\* the breaker is still HALF_OPEN, the breaker becomes CLOSED with count 0.
C6_ProbeSuccessClosesIfStillHalfOpen ==
    /\ (/\ cbLast.ev \in {"admitted", "rejected"}
        /\ cbLast.pre = "OPEN"
        /\ now - last_failure_time > recovery_timeout) =>
          /\ cbLast.ev = "admitted"
          /\ cbPc[cbLast.caller] = "probe"
          /\ cbState = "HALF_OPEN"
    /\ (/\ cbLast.ev \in Returned
        /\ cbLast.entry = "probe"
        /\ cbLast.pre = "HALF_OPEN") =>
          (cbState = "CLOSED" /\ failure_count = 0)

\* A probing call succeeded with the breaker still HALF_OPEN.
C6_Witness ==
    /\ cbLast.ev \in Returned
    /\ cbLast.entry = "probe"
    /\ cbLast.pre = "HALF_OPEN"
    /\ cbState = "CLOSED"

\* C7: a failure met in HALF_OPEN opens the breaker and records its time,
\* and no call is let through within recovery_timeout of that failure.
C7_HalfOpenFailureReopens ==
    /\ (cbLast.ev = "expected" /\ cbLast.pre = "HALF_OPEN") =>
          (cbState = "OPEN" /\ last_failure_time = now)
    /\ (cbHalfFailAt # NoTime /\ now - cbHalfFailAt <= recovery_timeout) =>
          (cbState = "OPEN" /\ cbLast.ev # "admitted")

\* A call made later than a HALF_OPEN failure, but within recovery_timeout
\* of it, is rejected.
C7_Witness ==
    /\ cbLast.ev = "rejected"
    /\ cbHalfFailAt # NoTime
    /\ now > cbHalfFailAt
    /\ now - cbHalfFailAt <= recovery_timeout

\* C8: a step raises failure_count or opens the breaker only when it is the
\* end of a call that raised the configured exception; the end of a call
\* that returned, or raised another exception, does neither.
C8_OnlyConfiguredFailureCounts ==
    [][/\ (\/ failure_count' > failure_count
           \/ (cbState' = "OPEN" /\ cbState # "OPEN")) =>
             cbLast'.ev = "expected"
       /\ cbLast'.ev \in (Returned \cup {"other"}) =>
             /\ failure_count' <= failure_count
             /\ cbState' = "OPEN" => cbState = "OPEN"]_vars

\* A call raised an exception outside the configured category while the
\* breaker was HALF_OPEN, and the count stayed at the threshold.
C8_Witness ==
    /\ cbLast.ev = "other"
    /\ cbLast.pre = "HALF_OPEN"
    /\ cbState = "HALF_OPEN"
    /\ failure_count = failure_threshold

\* C24: in every state, also between the steps of overlapping calls, a
\* CLOSED breaker has counted fewer failures than the threshold, and an OPEN
\* breaker has counted at least the threshold and holds the time of its
\* last failure.
C24_StateAgreesWithCount ==
    /\ failure_threshold >= 1
    /\ cbState = "CLOSED" => failure_count < failure_threshold
    /\ cbState = "OPEN" =>
          /\ failure_count >= failure_threshold
          /\ last_failure_time # NoTime
          /\ last_failure_time \in 0..now

\* Two overlapping calls both failed: the second met the breaker already
\* OPEN and raised the count past the threshold.
C24_Witness ==
    /\ cbLast.ev = "expected"
    /\ cbLast.pre = "OPEN"
    /\ cbLast.entry = "closed"
    /\ cbState = "OPEN"
    /\ failure_count > failure_threshold

\* C25: the breaker goes from HALF_OPEN to CLOSED, with the count reset,
\* only at the successful end of a call that was let through after the
\* recovery timeout (one that found the breaker OPEN with the timeout
\* elapsed, or already HALF_OPEN); the successful end of a call let through
\* while the breaker was CLOSED leaves a HALF_OPEN breaker as it is.
C25_OnlyProbeSuccessCloses ==
    [][/\ (cbState = "HALF_OPEN" /\ cbState' = "CLOSED") =>
             /\ cbLast'.ev \in Returned
             /\ cbLast'.entry \in {"probe", "half"}
             /\ failure_count' = 0
       /\ (/\ cbLast'.ev \in Returned
           /\ cbLast'.entry = "closed"
           /\ cbState = "HALF_OPEN") =>
             (cbState' = "HALF_OPEN" /\ failure_count' = failure_count)]_vars

\* C26: the successful end of a call met with the breaker CLOSED changes
\* neither the count nor the state; the count goes down only at a
\* successful end met in HALF_OPEN, and then to 0; so the failure that
\* brings the count to the threshold opens the breaker, whatever successes
\* came between the failures.
C26_ClosedSuccessKeepsCount ==
    [][/\ (cbLast'.ev \in Returned /\ cbState = "CLOSED") =>
             (failure_count' = failure_count /\ cbState' = "CLOSED")
       /\ failure_count' < failure_count =>
             /\ cbLast'.ev \in Returned
             /\ cbState = "HALF_OPEN"
             /\ failure_count' = 0
       /\ (cbLast'.ev = "expected"
               /\ failure_count' >= failure_threshold) =>
             cbState' = "OPEN"]_vars

\* A call succeeded with the breaker CLOSED one failure short of a
\* threshold of two, and the count is still one.
C26_Witness ==
    /\ cbLast.ev \in Returned
    /\ cbLast.pre = "CLOSED"
    /\ failure_threshold = 2
    /\ failure_count = 1
    /\ cbState = "CLOSED"

(***************************************************************************)
(* Properties of the rate limiter, checked under SpecRL.                   *)
(***************************************************************************)

\* The calls that returned True with current_time in the window ending at T.
AdmittedInWindow(T) ==
    SumOver(rlAdmitted, {t \in Times : T - window_size < t /\ t <= T})

WindowCap == \A T \in Times : AdmittedInWindow(T) <= max_requests

\* The decision of a call is "admit" exactly when fewer than max_requests
\* recorded timestamps are newer than current_time - window_size.
DecisionByCount ==
    rlLast.ev \in {"admit", "reject"} =>
       (rlLast.ev = "admit" <=>
          Cardinality({s \in zset :
                          s > rlTime[rlLast.caller] - window_size})
            < max_requests)

\* C9: when calls of is_allowed do not overlap, a call is admitted exactly
\* when fewer than max_requests recorded timestamps are inside its window,
\* and no window holds more than max_requests admitted calls (after
\* max_requests admissions the next call in the window is rejected).
C9_SequentialAdmission == ~rlOverlap => (DecisionByCount /\ WindowCap)

\* C10: under any interleaving, no window holds more than max_requests
\* admitted calls, and two calls that both counted max_requests - 1 are
\* never both admitted.  Admissions with equal timestamps are set aside:
\* they are the subject of another property.
C10_AtomicAdmission ==
    /\ (\A t \in Times : rlAdmitted[t] <= 1) => WindowCap
    /\ \A c, d \in Callers :
          (/\ c # d
           /\ rlPc[c] \in {"zadd", "expire"}
           /\ rlPc[d] \in {"zadd", "expire"}) =>
             ~(rlCount[c] = max_requests - 1 /\ rlCount[d] = max_requests - 1)


\* C11: no call of is_allowed ends with a store failure handed to its
\* caller: when a store command of the call fails, the call returns an
\* admitted result.
C11_StoreFaultAdmits == rlLast.ev # "raise"

\* C28: the zadd of every admitted call adds exactly one entry to the
\* record, also when its timestamp equals that of an earlier admission; so
\* the record holds at least one entry for each admission whose timestamp
\* it still holds.
C28_OneEntryPerAdmission ==
    [][/\ \A c \in Callers :
             (rlPc[c] = "zadd" /\ rlPc'[c] = "expire") =>
                 ZCard(zset') = ZCard(zset) + 1
       /\ SumOver(rlAdmitted', zset') <= ZCard(zset')]_vars

(***************************************************************************)
(* Properties of the cache and session facades, checked under SpecKV.      *)
(***************************************************************************)

\* C12: an operation of a cache or session facade that meets an unreachable
\* store does not raise: a get reports a miss, a set or delete reports
\* False, a pattern delete reports 0.
C12_FacadesDegrade ==
    kvLast.down =>
        CASE kvLast.op = "get" -> kvLast.out = Miss
          [] kvLast.op \in {"set", "delete"} -> kvLast.out = RetFalse
          [] kvLast.op = "clear_pattern" -> kvLast.out = RetCount(0)
          [] OTHER -> TRUE

\* C13: a get that meets no fault returns the value last stored under the
\* key through the same kind of facade while the time-to-live given with
\* that value has not elapsed, and a miss when no such value is left; the
\* time-to-live of a key is the one of its last set.
C13_SetThenGet ==
    (kvLast.op = "get" /\ ~kvLast.fault) =>
        /\ kvLast.out = IF kvLast.key \in DOMAIN kvWritten
                        THEN Value(kvWritten[kvLast.key].v) ELSE Miss
        /\ \A k \in DOMAIN kvWritten :
               k \in DOMAIN kv /\ kv[k].exp = kvWritten[k].exp

\* C30: the cache manager connects at the first operation only and keeps
\* what it found: once initialized it stays initialized and is_available()
\* gives the same answer at every later operation, whatever the store's
\* reachability has become since; the first operation finds the client
\* exactly when the store is reachable then.
C30_AvailabilityDecidedOnce ==
    [][/\ cmInitialized => (cmInitialized' /\ cmClient' = cmClient)
       /\ (~cmInitialized /\ cmInitialized') => cmClient' = storeUp
       /\ kvLast'.facade = "cache" => cmInitialized']_vars

\* The store was unreachable at the first operation and is reachable now: a
\* get of a key the store holds is still answered as a miss.
C30_Witness ==
    /\ cmInitialized
    /\ ~cmClient
    /\ storeUp
    /\ kvLast.facade = "cache"
    /\ kvLast.op = "get"
    /\ kvLast.key \in DOMAIN kv
    /\ kvLast.out = Miss

(***************************************************************************)
(* Properties of the cache_result wrapper, checked under SpecCR.           *)
(***************************************************************************)

\* C14: an invocation for a character id for which an earlier invocation
\* has stored its result, still within the time-to-live, builds the key the
\* earlier one built and is served from the cache.
C14_SameInputsSameKey ==
    (crLast.op = "lookup" /\ crLast.prior) =>
        crLast.key = crLast.priorKey /\ crLast.hit

\* The keys the wrapper can build for get_character of a character.
WrapperKeysOf(cid) ==
    {WrapperKey(cid, addr, style) : addr \in Addresses, style \in CallStyles}

\* C29: when a request for a character has run invalidate_character_cache
\* with the store available and has returned, the store holds no entry of
\* the wrapper for that character; so a later request for a character for
\* which an earlier request stored its response is not served from the
\* cache.
C29_InvalidationLeavesNoEntry ==
    /\ (crLast.op = "return" /\ cmClient /\ storeUp) =>
          (DOMAIN kv) \cap WrapperKeysOf(crLast.cid) = {}
    /\ (crLast.op = "lookup" /\ crLast.prior) => ~crLast.hit

(***************************************************************************)
(* Properties of the process, checked under SpecAP.                        *)
(***************************************************************************)

\* C15: the status of the aggregate health report is "unhealthy" when the
\* database check or the store check is false, "degraded" when both pass
\* and memory utilization exceeds 90%, and "healthy" otherwise.
C15_AggregateStatus ==
    apLast.ev = "health" =>
        apLast.status =
            IF ~apLast.database \/ ~apLast.redis THEN "unhealthy"
            ELSE IF apLast.memory # NoMemory /\ apLast.memory > 90
                 THEN "degraded"
            ELSE "healthy"

\* C18: no request is admitted once graceful_shutdown has begun.
C18_NoAdmissionAfterShutdown ==
    /\ apNew = 0
    /\ apLast.ev = "admit" => apLast.phase = "running"

\* C19: the store client is closed only when the requests admitted before
\* shutdown have drained or the timeout has elapsed, and graceful_shutdown
\* lets no time pass while it holds the client open with nothing in flight.
C19_WaitsForDrainOrTimeout ==
    [][/\ (apClient = "open" /\ apClient' = "closed") =>
              (apOld = 0 \/ SleepOver(now, apShutdownAt, apTimeout))
       /\ (apPhase = "draining" /\ apClient = "open"
              /\ apOld + apNew = 0) => now' = now]_vars

\* C20: at most one database pool and one store client are ever created,
\* and the store client is closed at most once, by the shutdown.
C20_Singletons ==
    /\ apPoolsCreated <= 1
    /\ apStoreCreated <= 1
    /\ apStoreClosed <= 1
    /\ apStoreClosed = 1 => apPhase = "stopped"

(***************************************************************************)
(* Properties of create_scaling_config, checked under SpecCF.              *)
(***************************************************************************)

\* The profile has every field of ScalingConfig, each with a value of the
\* field's type.
FullyPopulated(c) ==
    /\ DOMAIN c = ConfigFields
    /\ c.mode \in {EnumMember(m) : m \in ScalingModes}
    /\ \A f \in {"max_workers", "connection_pool_size", "redis_connections",
                  "cache_ttl", "health_check_interval",
                  "graceful_shutdown_timeout"} : c[f] \in Nat \ {0}
    /\ \A f \in {"enable_load_balancing", "enable_circuit_breaker",
                  "enable_rate_limiting", "enable_session_affinity"} :
           c[f] \in BOOLEAN

\* C22: every call of create_scaling_config returns a fully populated
\* profile; for a member of the four modes the profile's mode field is that
\* member, and the profiles of different members differ; for any other
\* value the profile is the production profile.
C22_ProfileOfMode ==
    \A k \in 1..Len(cfLog) :
        LET mode == cfLog[k].mode
            c == cfLog[k].config
        IN  /\ FullyPopulated(c)
            /\ IF mode \in {EnumMember(m) : m \in ScalingModes}
               THEN c.mode = mode
               ELSE /\ c.mode = EnumMember("production")
                    /\ c = configs[EnumMember("production")]
            /\ \A j \in 1..Len(cfLog) :
                  c.mode = cfLog[j].config.mode => c = cfLog[j].config

\* The profile was asked for the member HIGH_TRAFFIC, for the string
\* "development" and for None.
C22_Witness ==
    /\ \E k \in 1..Len(cfLog) : cfLog[k].mode = EnumMember("high_traffic")
    /\ \E k \in 1..Len(cfLog) :
          cfLog[k].mode = [type |-> "str", value |-> "development"]
    /\ \E k \in 1..Len(cfLog) : cfLog[k].mode.type = "NoneType"

=============================================================================
